---- MODULE Spec2Model ----
(***************************************************************************)
(* Model of the timetable generator (src/utils/timetable_generator.py)     *)
(* and of the conflict detector (src/utils/conflict_detector.py) over the  *)
(* catalog of src/models.py.                                               *)
(*                                                                         *)
(* Times of day are minutes since midnight (time(8, 0) is 480).  A NULL    *)
(* foreign key is 0 (ids start at 1).  random.shuffle can produce every    *)
(* order, and the search takes the first candidate of the order that       *)
(* passes the checks, so a shuffled search is the choice of any candidate  *)
(* that passes them.  A query without ORDER BY returns the rows in the     *)
(* order of their ids, as SQLite does on an unchanged table.               *)
(*                                                                         *)
(* Spec explores one generation request and the detector, DetectorSpec the *)
(* detector over richer tables, NullableSpec course rows holding NULL,     *)
(* RepeatedSpec and ConcurrentSpec generation requests that follow or      *)
(* cross one another (src/routes/admin_routes.py), and BookingSpec the     *)
(* booking routes (src/routes/teacher_routes.py, admin_routes.py).         *)
(***************************************************************************)
EXTENDS Integers, Sequences, FiniteSets, TLC

----------------------------------------------------------------------------
(* Bounds of the explored inputs *)

\* days explored are 0..MaxDay
MaxDay == 1
\* weekly_sessions of a course is at most MaxSessions
MaxSessions == 2
\* number of rows of the timeslot table before the run, and the table size up
\* to which a further request is explored
MaxPersisted == 1
\* number of rows of the timeslot table the detector is run on
MaxRows == 4
\* booking requests submitted
MaxBookings == 2

----------------------------------------------------------------------------
(* Program constants *)

MinutesPerDay == 1440
\* time(17, 0), the ceiling of the instructional day
DayEnd == 1020
\* duration used when course.duration_minutes is unset
DefaultDuration == 60
FirstSlotHour == 8
LastSlotHour == 17

\* self.slot_starts
slot_starts == { h * 60 : h \in FirstSlotHour..LastSlotHour }

\* self.days
days == 0..MaxDay

\* what a column holding NULL reads as; no integer column holds a negative number
None == -1

ReasonNoTeacher == "Aucun enseignant assigne a ce cours"
ReasonNoSlot == "Impossible de trouver un creneau valide"
ErrorNoGroup == "Aucun groupe trouve"

----------------------------------------------------------------------------
(* The catalog *)

GroupIds == 1..3
\* Group.department_id
group_department == [g \in GroupIds |-> IF g = 3 THEN 2 ELSE 1]
\* Group.courses, in relationship order
group_courses == [g \in GroupIds |-> <<g>>]
\* Group.capacity
group_capacity == [g \in GroupIds |-> CASE g = 1 -> 30 [] g = 2 -> 18 [] OTHER -> 45]

RoomIds == 1..3
\* Room.room_type and Room.capacity
rooms == [r \in RoomIds |->
            CASE r = 1 -> [room_type |-> "Lab", capacity |-> 20]
              [] r = 2 -> [room_type |-> "Classroom", capacity |-> 40]
              [] OTHER -> [room_type |-> "Amphitheater", capacity |-> 25]]

CourseIds == 1..3

LongDurations == {600}
TeacherLists == {<<>>, <<1>>, <<1, 2>>}

VARIABLES
  courses,          \* Course rows: id -> weekly_sessions, duration_minutes, requires_lab, teachers
  availability,     \* TeacherAvailability rows
  persisted,        \* TimeSlot rows in the database
  department_id,    \* self.department_id
  group_id,         \* self.group_id (0: every group of the department)
  generated_slots,  \* self.generated_slots
  conflicts,        \* self.conflicts
  generated_count,  \* generate()'s local counter
  failed_count,     \* generate()'s local counter
  todo,             \* session instances the loops of generate() have still to visit
  pc,               \* "new", "running", "raised", "done", "saved", "audited"
  result,           \* the value generate() returned
  saved_count,      \* the value save_timetable() returned, -1 before the call
  detector_conflicts, \* self.conflicts of the ConflictDetector
  report,           \* the value detect_all_conflicts() returned
  other_slots,      \* self.generated_slots of a request that has not saved yet
  bookings          \* BookingRequest rows

vars == <<courses, availability, persisted, department_id, group_id,
          generated_slots, conflicts, generated_count, failed_count, todo, pc, result,
          saved_count, detector_conflicts, report, other_slots, bookings>>

catalog == <<courses, availability, persisted>>

\* what the requests in flight beside this one, and the booking routes, write
site == <<other_slots, bookings>>

\* what save_timetable() and the detector write
audit == <<saved_count, detector_conflicts, report>>

----------------------------------------------------------------------------
(* Utilities of the generator *)

\* add_minutes: datetime arithmetic, of which only the time of day is kept
add_minutes(start_time, minutes) == (start_time + minutes) % MinutesPerDay

Max2(a, b) == IF a >= b THEN a ELSE b
Min2(a, b) == IF a <= b THEN a ELSE b

is_overlap(start1, end1, start2, end2) == Max2(start1, start2) < Min2(end1, end2)

SeqRange(s) == { s[i] : i \in 1..Len(s) }

\* mutant: the rows of the database are not looked at
check_group_busy_memory_only(g, day, start_time, end_time) ==
  \E slot \in SeqRange(generated_slots) :
     /\ slot.group_id = g /\ slot.day_of_week = day
     /\ is_overlap(start_time, end_time, slot.start_time, slot.end_time)

check_group_busy(g, day, start_time, end_time) ==
  \/ \E slot \in SeqRange(generated_slots) :
        /\ slot.group_id = g /\ slot.day_of_week = day
        /\ is_overlap(start_time, end_time, slot.start_time, slot.end_time)
  \/ \E slot \in persisted :
        /\ slot.group_id = g /\ slot.day_of_week = day
        /\ is_overlap(start_time, end_time, slot.start_time, slot.end_time)

\* mutant: the slots of the run are not looked at
check_room_busy_database_only(r, day, start_time, end_time) ==
  \E slot \in persisted :
     /\ slot.room_id = r /\ slot.day_of_week = day
     /\ is_overlap(start_time, end_time, slot.start_time, slot.end_time)

check_room_busy(r, day, start_time, end_time) ==
  \/ \E slot \in SeqRange(generated_slots) :
        /\ slot.room_id = r /\ slot.day_of_week = day
        /\ is_overlap(start_time, end_time, slot.start_time, slot.end_time)
  \/ \E slot \in persisted :
        /\ slot.room_id = r /\ slot.day_of_week = day
        /\ is_overlap(start_time, end_time, slot.start_time, slot.end_time)

\* mutant: the slots of the run are not looked at
check_teacher_busy_database_only(t, day, start_time, end_time) ==
  \E slot \in persisted :
     /\ slot.teacher_id = t /\ slot.day_of_week = day
     /\ is_overlap(start_time, end_time, slot.start_time, slot.end_time)

check_teacher_busy(t, day, start_time, end_time) ==
  \/ \E slot \in SeqRange(generated_slots) :
        /\ slot.teacher_id = t /\ slot.day_of_week = day
        /\ is_overlap(start_time, end_time, slot.start_time, slot.end_time)
  \/ \E slot \in persisted :
        /\ slot.teacher_id = t /\ slot.day_of_week = day
        /\ is_overlap(start_time, end_time, slot.start_time, slot.end_time)

\* mutant: a day without rows counts as available
check_teacher_preferences_lenient(t, day, start_time, end_time) ==
  LET availabilities == { a \in availability : a.teacher_id = t /\ a.day_of_week = day }
  IN IF availabilities = {}
       THEN TRUE
       ELSE \E avail \in availabilities :
              /\ avail.is_available
              /\ avail.start_time <= start_time
              /\ avail.end_time >= end_time

check_teacher_preferences(t, day, start_time, end_time) ==
  LET availabilities == { a \in availability : a.teacher_id = t /\ a.day_of_week = day }
  IN IF availabilities = {}
       THEN ~ \E a \in availability : a.teacher_id = t
       ELSE \E avail \in availabilities :
              /\ avail.is_available
              /\ avail.start_time <= start_time
              /\ avail.end_time >= end_time

\* mutant: a lab course may take any room
suitable_rooms_lab_anywhere(course) ==
  { r \in RoomIds : course.requires_lab \/ rooms[r].room_type # "Lab" }

\* the rooms whose lab flag equals course.requires_lab
suitable_rooms(course) ==
  { r \in RoomIds : (rooms[r].room_type = "Lab") = course.requires_lab }

\* the teacher the loop over course.teachers stops at (0: none)
RECURSIVE select_teacher(_, _, _, _)
select_teacher(teachers, day, start_time, end_time) ==
  IF teachers = <<>> THEN 0
  ELSE IF /\ ~ check_teacher_busy(Head(teachers), day, start_time, end_time)
          /\ check_teacher_preferences(Head(teachers), day, start_time, end_time)
       THEN Head(teachers)
       ELSE select_teacher(Tail(teachers), day, start_time, end_time)

\* the groups generate() iterates over, in id order
target_groups(dept, gid) ==
  IF gid # 0
    THEN { g \in GroupIds : g = gid }
    ELSE { g \in GroupIds : group_department[g] = dept }

\* the emptiness test left out
no_groups_never(groups) == FALSE

\* "if not groups"
no_groups(groups) == groups = {}

duration_of(course) ==
  IF course.duration_minutes # 0 THEN course.duration_minutes ELSE DefaultDuration

\* a (day, start, room) candidate passes every check of the search loop
candidate_ok(g, course, day, start_time, room) ==
  LET end_time == add_minutes(start_time, duration_of(course))
  IN /\ ~ (end_time > DayEnd)
     /\ ~ check_group_busy(g, day, start_time, end_time)
     /\ ~ check_room_busy(room, day, start_time, end_time)
     /\ select_teacher(course.teachers, day, start_time, end_time) # 0

\* the session instances of one course of one group
RECURSIVE Repeat(_, _)
Repeat(x, n) == IF n <= 0 THEN <<>> ELSE <<x>> \o Repeat(x, n - 1)

\* "course.weekly_sessions if hasattr(course, 'weekly_sessions') else 1": the
\* mapped class has the attribute whatever the row holds
sessions_needed(course) == course.weekly_sessions

\* a course whose sessions_needed is None keeps one entry, the visit of its
\* "for _ in range(sessions_needed)" statement
RECURSIVE course_instances(_, _)
course_instances(g, cs) ==
  IF cs = <<>> THEN <<>>
  ELSE Repeat([group |-> g, course |-> Head(cs)],
              IF sessions_needed(courses[Head(cs)]) = None
                THEN 1 ELSE sessions_needed(courses[Head(cs)]))
       \o course_instances(g, Tail(cs))

\* the iteration order of the three nested loops, groups by ascending id
RECURSIVE all_instances(_)
all_instances(gs) ==
  IF gs = {} THEN <<>>
  ELSE LET g == CHOOSE x \in gs : \A y \in gs : x <= y
       IN course_instances(g, group_courses[g]) \o all_instances(gs \ {g})

----------------------------------------------------------------------------
(* Inputs *)

Course(n, d, lab, ts) ==
  [weekly_sessions |-> n, duration_minutes |-> d, requires_lab |-> lab, teachers |-> ts]

\* course 1 (group 1): a lab course of six hours
Course1Rows ==
  { Course(n, 360, TRUE, ts) : n \in 1..MaxSessions, ts \in TeacherLists }
\* course 2 (group 2): one session of unset duration, with the teachers of course 1
Course2Rows == { Course(1, 0, lab, <<2, 1>>) : lab \in BOOLEAN }
\* course 3 (group 3): a classroom course of one or two sessions longer than
\* the day (eight hours when the courses of department 1 vary)
Course3Rows == { Course(n, d, FALSE, <<2, 1>>) : n \in 1..2, d \in LongDurations }

\* the courses of department 1 vary together, the course of department 2 apart
CourseTables ==
  { [c \in CourseIds |-> CASE c = 1 -> r1 [] c = 2 -> r2 [] OTHER -> Course(1, 480, FALSE, <<2, 1>>)] :
      r1 \in Course1Rows, r2 \in Course2Rows }
  \cup
  { [c \in CourseIds |-> CASE c = 1 -> Course(1, 360, TRUE, <<1>>)
                          [] c = 2 -> Course(1, 0, TRUE, <<2, 1>>)
                          [] OTHER -> r3] : r3 \in Course3Rows }

Window(i, t, d, s, e, a) ==
  [id |-> i, teacher_id |-> t, day_of_week |-> d, start_time |-> s, end_time |-> e,
   is_available |-> a]

AvailabilityChoices ==
  { {},
    { Window(1, 1, 0, 480, 840, TRUE) },
    { Window(1, 1, 0, 720, 840, FALSE), Window(2, 1, 0, 480, 1020, TRUE) } }

PersistedCandidates ==
  { [id |-> 1, course_id |-> 1, group_id |-> 1, room_id |-> 2, teacher_id |-> 1,
     day_of_week |-> 0, start_time |-> 480, end_time |-> 660],
    [id |-> 2, course_id |-> 3, group_id |-> 0, room_id |-> 1, teacher_id |-> 2,
     day_of_week |-> 1, start_time |-> 480, end_time |-> 840] }

\* the report before detect_all_conflicts() has returned one
NoReport ==
  [total_conflicts |-> 0, critical |-> 0, high |-> 0, medium |-> 0, conflicts |-> <<>>]

\* <<department_id, group_id>> of a request: a department with two groups, with
\* one group and with none, and a group asked for under another department
Scopes == { <<1, 0>>, <<2, 0>>, <<3, 0>>, <<1, 3>> }

\* no request has been served yet
Idle ==
  /\ department_id = 0
  /\ group_id = 0
  /\ generated_slots = <<>>
  /\ conflicts = <<>>
  /\ generated_count = 0
  /\ failed_count = 0
  /\ todo = <<>>
  /\ pc = "new"
  /\ result = [error |-> "", generated |-> 0, failed |-> 0]
  /\ saved_count = -1
  /\ detector_conflicts = <<>>
  /\ report = NoReport
  /\ other_slots = <<>>
  /\ bookings = {}

Init ==
  /\ courses \in CourseTables
  /\ availability \in AvailabilityChoices
  /\ persisted \in { p \in SUBSET PersistedCandidates : Cardinality(p) <= MaxPersisted }
  /\ Idle

\* course rows whose weekly_sessions may hold NULL (the column is nullable)
NullableCourseTables ==
  { [c \in CourseIds |-> CASE c = 1 -> Course(n1, 360, TRUE, <<1>>)
                          [] c = 2 -> Course(n2, 0, TRUE, <<2, 1>>)
                          [] OTHER -> Course(n3, 480, FALSE, <<2, 1>>)] :
      n1 \in {None} \cup 1..MaxSessions, n2 \in {None, 1}, n3 \in {None, 1} }

InitNullable ==
  /\ courses \in NullableCourseTables
  /\ availability \in AvailabilityChoices
  /\ persisted = {}
  /\ Idle

----------------------------------------------------------------------------
(* Operations *)

\* TimetableGenerator(department_id, semester, group_id).generate(), up to the loops
Generate(dept, gid) ==
  /\ pc = "new"
  /\ department_id' = dept
  /\ group_id' = gid
  /\ IF no_groups(target_groups(dept, gid))
       THEN /\ result' = [error |-> ErrorNoGroup, generated |-> 0, failed |-> 0]
            /\ pc' = "done"
            /\ todo' = <<>>
       ELSE /\ todo' = all_instances(target_groups(dept, gid))
            /\ pc' = "running"
            /\ UNCHANGED result
  /\ UNCHANGED <<catalog, site, generated_slots, conflicts, generated_count, failed_count, audit>>

record_failure_uncounted(g, c, reason) ==
  /\ conflicts' = Append(conflicts, [course |-> c, group |-> g, reason |-> reason])
  /\ failed_count' = failed_count
  /\ UNCHANGED <<generated_slots, generated_count>>

record_failure(g, c, reason) ==
  /\ conflicts' = Append(conflicts, [course |-> c, group |-> g, reason |-> reason])
  /\ failed_count' = failed_count + 1
  /\ UNCHANGED <<generated_slots, generated_count>>

\* the failure entry without the continue: the search runs with no teacher to
\* pick and adds its own failure
no_teacher_outcome_fallthrough(g, c) ==
  /\ conflicts' = conflicts \o << [course |-> c, group |-> g, reason |-> ReasonNoTeacher],
                                   [course |-> c, group |-> g, reason |-> ReasonNoSlot] >>
  /\ failed_count' = failed_count + 2
  /\ UNCHANGED <<generated_slots, generated_count>>

\* "if not available_teachers": the failure entry, then continue
no_teacher_outcome(g, c) == record_failure(g, c, ReasonNoTeacher)

\* "if not scheduled": the failure entry after the search
no_slot_outcome(g, c) == record_failure(g, c, ReasonNoSlot)

\* the search going back on its last placement before it adds the new one
record_slot_backtracking(g, c, room, teacher, day, start_time, end_time) ==
  /\ generated_slots' = Append(SubSeq(generated_slots, 1, Len(generated_slots) - 1),
        [course_id |-> c, group_id |-> g, room_id |-> room, teacher_id |-> teacher,
         day_of_week |-> day, start_time |-> start_time, end_time |-> end_time])
  /\ generated_count' = generated_count + 1
  /\ UNCHANGED <<conflicts, failed_count>>

\* generated_slots.append(slot); generated_count += 1; scheduled = True; break
record_slot(g, c, room, teacher, day, start_time, end_time) ==
  /\ generated_slots' = Append(generated_slots,
        [course_id |-> c, group_id |-> g, room_id |-> room, teacher_id |-> teacher,
         day_of_week |-> day, start_time |-> start_time, end_time |-> end_time])
  /\ generated_count' = generated_count + 1
  /\ UNCHANGED <<conflicts, failed_count>>

\* one pass of the body of "for _ in range(sessions_needed)"
PlaceSession ==
  /\ pc = "running"
  /\ todo # <<>>
  /\ sessions_needed(courses[Head(todo).course]) # None
  /\ LET g == Head(todo).group
         c == Head(todo).course
         course == courses[c]
     IN IF course.teachers = <<>>
          THEN no_teacher_outcome(g, c)
          ELSE \/ \E day \in days, start_time \in slot_starts, room \in suitable_rooms(course) :
                    /\ candidate_ok(g, course, day, start_time, room)
                    /\ LET end_time == add_minutes(start_time, duration_of(course))
                       IN record_slot(g, c, room,
                                      select_teacher(course.teachers, day, start_time, end_time),
                                      day, start_time, end_time)
               \/ /\ ~ \E day \in days, start_time \in slot_starts, room \in suitable_rooms(course) :
                         candidate_ok(g, course, day, start_time, room)
                  /\ no_slot_outcome(g, c)
  /\ todo' = Tail(todo)
  /\ UNCHANGED <<catalog, site, department_id, group_id, pc, result, audit>>

\* range(None) raises TypeError: generate() returns nothing, and the route's
\* "except Exception" rolls the session back
RangeRaises ==
  /\ pc = "running"
  /\ todo # <<>>
  /\ sessions_needed(courses[Head(todo).course]) = None
  /\ pc' = "raised"
  /\ UNCHANGED <<catalog, site, department_id, group_id, generated_slots, conflicts,
                 generated_count, failed_count, todo, result, audit>>

\* the return statement of generate()
Return ==
  /\ pc = "running"
  /\ todo = <<>>
  /\ result' = [error |-> "", generated |-> generated_count, failed |-> failed_count]
  /\ pc' = "done"
  /\ UNCHANGED <<catalog, site, department_id, group_id, generated_slots, conflicts,
                 generated_count, failed_count, todo, audit>>

\* the id the database gives the next inserted TimeSlot row
next_id(table) ==
  IF table = {} THEN 1
  ELSE 1 + (CHOOSE m \in { row.id : row \in table } : \A row \in table : row.id <= m)

\* the rows a session holds after db.session.add of every slot of a list
session_rows(slots, table) ==
  { [id |-> next_id(table) + i - 1,
     course_id |-> slots[i].course_id,
     group_id |-> slots[i].group_id,
     room_id |-> slots[i].room_id,
     teacher_id |-> slots[i].teacher_id,
     day_of_week |-> slots[i].day_of_week,
     start_time |-> slots[i].start_time,
     end_time |-> slots[i].end_time] : i \in 1..Len(slots) }

\* the rows the session holds after db.session.add of every generated slot
pending_rows(table) == session_rows(generated_slots, table)

\* UniqueConstraint unique_room_time and unique_teacher_time
unique_constraints(table) ==
  \A a, b \in table :
    (a.id # b.id /\ a.day_of_week = b.day_of_week /\ a.start_time = b.start_time)
      => (a.room_id # b.room_id /\ a.teacher_id # b.teacher_id)

\* only the first pending row reaches the table
commit_rows_first_only(table) ==
  table \cup { row \in pending_rows(table) : row.id = next_id(table) }

\* the commit writes the pending rows beside the rows of the table
commit_rows(table) == table \cup pending_rows(table)

\* the commit replaces the rows of the table
SaveTimetable_replacing ==
  /\ pc = "done"
  /\ persisted' = pending_rows(persisted)
  /\ saved_count' = Len(generated_slots)
  /\ pc' = "saved"
  /\ UNCHANGED <<courses, availability, site, department_id, group_id, generated_slots, conflicts,
                 generated_count, failed_count, todo, result, detector_conflicts, report>>

\* save_timetable(db): the commit goes through, or add or commit raises (a
\* constraint of the table, or the database itself) and the session is rolled
\* back
SaveTimetable ==
  /\ pc = "done"
  /\ \/ /\ unique_constraints(commit_rows(persisted))
        /\ persisted' = commit_rows(persisted)
        /\ saved_count' = Len(generated_slots)
     \/ /\ persisted' = persisted
        /\ saved_count' = 0
  /\ pc' = "saved"
  /\ UNCHANGED <<courses, availability, site, department_id, group_id, generated_slots, conflicts,
                 generated_count, failed_count, todo, result, detector_conflicts, report>>

\* the category of the message the route flashes after save_timetable():
\* result['generated'] of an error dictionary raises KeyError, which the
\* route's "except Exception" reports
flash_category(generate_result) ==
  IF generate_result.error # "" THEN "danger"
  ELSE IF generate_result.generated > 0 THEN "success" ELSE "warning"

\* the route has answered and the next POST builds a new TimetableGenerator
NewRequest ==
  /\ pc = "saved"
  /\ other_slots = <<>>
  /\ Cardinality(persisted) <= MaxPersisted
  /\ department_id' = 0
  /\ group_id' = 0
  /\ generated_slots' = <<>>
  /\ conflicts' = <<>>
  /\ generated_count' = 0
  /\ failed_count' = 0
  /\ todo' = <<>>
  /\ pc' = "new"
  /\ result' = [error |-> "", generated |-> 0, failed |-> 0]
  /\ saved_count' = -1
  /\ UNCHANGED <<catalog, detector_conflicts, report, site>>

\* a second POST is served while the first has returned from generate() and
\* not yet called save_timetable(): its generator reads the same table. The
\* steps of the two generate() calls only read the table and write their own
\* generator, so the first call is run to its end before the second starts.
ConcurrentRequest ==
  /\ pc = "done"
  /\ other_slots = <<>>
  /\ generated_slots # <<>>
  /\ other_slots' = generated_slots
  /\ department_id' = 0
  /\ group_id' = 0
  /\ generated_slots' = <<>>
  /\ conflicts' = <<>>
  /\ generated_count' = 0
  /\ failed_count' = 0
  /\ todo' = <<>>
  /\ pc' = "new"
  /\ result' = [error |-> "", generated |-> 0, failed |-> 0]
  /\ UNCHANGED <<catalog, audit, bookings>>

\* save_timetable(db) of the request that waited
SaveOther ==
  /\ pc = "saved"
  /\ other_slots # <<>>
  /\ \/ /\ unique_constraints(persisted \cup session_rows(other_slots, persisted))
        /\ persisted' = persisted \cup session_rows(other_slots, persisted)
     \/ persisted' = persisted
  /\ other_slots' = <<>>
  /\ UNCHANGED <<courses, availability, department_id, group_id, generated_slots, conflicts,
                 generated_count, failed_count, todo, pc, result, audit, bookings>>

----------------------------------------------------------------------------
(* The booking routes *)

\* the filter "TimeSlot.day_of_week == day_of_week, TimeSlot.start_time <
\* end_time, TimeSlot.end_time > start_time" of the checks of a submission
busy_rows(form) ==
  { row \in persisted :
      /\ row.day_of_week = form.day_of_week
      /\ row.start_time < form.end_time
      /\ row.end_time > form.start_time }

\* check 1: the room holds a session across the requested window
room_busy_timeslot(form) ==
  \E row \in busy_rows(form) : row.room_id = form.room_id

\* check 3: a course the teacher is attached to has a session across the window
teacher_busy_timeslot(form) ==
  \E row \in busy_rows(form) :
    \E k \in 1..Len(courses[row.course_id].teachers) :
      courses[row.course_id].teachers[k] = form.teacher_id

\* check 4: a course of the group has a session across the window
group_busy_timeslot(form) ==
  /\ form.group_id # 0
  /\ \E row \in busy_rows(form) :
       \E k \in 1..Len(group_courses[form.group_id]) :
         group_courses[form.group_id][k] = row.course_id

\* the forms a teacher posts: a course of the teacher that is not a TP (the
\* equipment check passes), in room 2 on day 0
BookingForms ==
  { [teacher_id |-> t, course_id |-> 1, group_id |-> 1, room_id |-> 2, day_of_week |-> 0,
     start_time |-> w[1], end_time |-> w[2]] :
      t \in {1, 2}, w \in { <<480, 600>>, <<540, 660>>, <<660, 720>> } }

\* POST /bookings of a teacher: the request is stored when no check finds a
\* session, and the page is shown again otherwise
SubmitBooking(form) ==
  /\ pc = "new"
  /\ Cardinality(bookings) < MaxBookings
  /\ ~ room_busy_timeslot(form)
  /\ ~ teacher_busy_timeslot(form)
  /\ ~ group_busy_timeslot(form)
  /\ bookings' = bookings \cup
        { [id |-> next_id(bookings), teacher_id |-> form.teacher_id,
           course_id |-> form.course_id, group_id |-> form.group_id,
           room_id |-> form.room_id, day_of_week |-> form.day_of_week,
           start_time |-> form.start_time, end_time |-> form.end_time,
           status |-> "pending"] }
  /\ UNCHANGED <<catalog, department_id, group_id, generated_slots, conflicts,
                 generated_count, failed_count, todo, pc, result, audit, other_slots>>

\* the locked TimeSlot approve_booking() builds from a request
new_slot(booking, table) ==
  [id |-> next_id(table), course_id |-> booking.course_id, group_id |-> booking.group_id,
   room_id |-> booking.room_id, teacher_id |-> booking.teacher_id,
   day_of_week |-> booking.day_of_week, start_time |-> booking.start_time,
   end_time |-> booking.end_time]

\* POST /bookings/approve/<id>: the request of any status is marked approved
\* and its session added; a commit the unique constraints refuse raises and
\* nothing is written
ApproveBooking(booking_id) ==
  /\ pc = "new"
  /\ \E booking \in bookings :
       /\ booking.id = booking_id
       /\ IF unique_constraints(persisted \cup {new_slot(booking, persisted)})
            THEN /\ persisted' = persisted \cup {new_slot(booking, persisted)}
                 /\ bookings' = (bookings \ {booking})
                                   \cup {[booking EXCEPT !.status = "approved"]}
            ELSE UNCHANGED <<persisted, bookings>>
  /\ UNCHANGED <<courses, availability, department_id, group_id, generated_slots, conflicts,
                 generated_count, failed_count, todo, pc, result, audit, other_slots>>

----------------------------------------------------------------------------
(* The conflict detector *)

\* the bounds of the weekly load of a group, in hours
MinWeeklyHours == 18
MaxWeeklyHours == 24
\* getattr(slot.group, 'student_count', 30): Group has no such attribute
DefaultStudentCount == 30

\* Model.query.all(): the rows in the order of their ids
RECURSIVE query_all(_)
query_all(table) ==
  IF table = {} THEN <<>>
  ELSE LET first == CHOOSE row \in table : \A other \in table : row.id <= other.id
       IN <<first>> \o query_all(table \ {first})

\* the column a pairwise detection is keyed on
key_of(row, type) ==
  CASE type = "room_conflict" -> row.room_id
    [] type = "teacher_conflict" -> row.teacher_id
    [] OTHER -> row.group_id

\* the filter "start_time < slot.end_time, end_time > slot.start_time"
crosses(row, slot) == row.start_time < slot.end_time /\ row.end_time > slot.start_time

\* the query "overlapping" of a pairwise detection
overlapping(table, slot, type) ==
  query_all({ row \in table :
                /\ row.id # slot.id
                /\ key_of(row, type) = key_of(slot, type)
                /\ row.day_of_week = slot.day_of_week
                /\ crosses(row, slot) })

\* tuple(sorted((slot.id, conflict_slot.id)))
pair_key(slot, conflict_slot) == {slot.id, conflict_slot.id}

pair_entry(slot, conflict_slot, type) ==
  [type |-> type, severity |-> "critical", subject |-> key_of(slot, type),
   slot1_course |-> slot.course_id, slot2_course |-> conflict_slot.course_id]

\* the inner loop "for conflict_slot in overlapping": the entries appended and
\* the pairs checked after it
RECURSIVE scan_overlapping(_, _, _, _, _)
scan_overlapping(slot, found, type, entries, checked_pairs) ==
  IF found = <<>> THEN <<entries, checked_pairs>>
  ELSE IF pair_key(slot, Head(found)) \in checked_pairs
         THEN scan_overlapping(slot, Tail(found), type, entries, checked_pairs)
         ELSE scan_overlapping(slot, Tail(found), type,
                               Append(entries, pair_entry(slot, Head(found), type)),
                               checked_pairs \cup {pair_key(slot, Head(found))})

\* the outer loop "for slot in timeslots" of a pairwise detection
RECURSIVE scan_timeslots(_, _, _, _, _)
scan_timeslots(timeslots, table, type, entries, checked_pairs) ==
  IF timeslots = <<>> THEN entries
  ELSE LET slot == Head(timeslots)
       IN IF type = "group_conflict" /\ slot.group_id = 0
            THEN scan_timeslots(Tail(timeslots), table, type, entries, checked_pairs)
            ELSE LET after == scan_overlapping(slot, overlapping(table, slot, type), type,
                                               entries, checked_pairs)
                 IN scan_timeslots(Tail(timeslots), table, type, after[1], after[2])

\* each detect_* method appends its entries to self.conflicts
detect_room_conflicts(self_conflicts, table) ==
  scan_timeslots(query_all(table), table, "room_conflict", self_conflicts, {})

detect_teacher_conflicts(self_conflicts, table) ==
  scan_timeslots(query_all(table), table, "teacher_conflict", self_conflicts, {})

detect_group_conflicts(self_conflicts, table) ==
  scan_timeslots(query_all(table), table, "group_conflict", self_conflicts, {})

\* TeacherAvailability.query.filter_by(teacher_id, day_of_week).first(): a
\* sequence of at most one row
first_availability(t, day) ==
  LET found == query_all({ a \in availability : a.teacher_id = t /\ a.day_of_week = day })
  IN IF found = <<>> THEN <<>> ELSE <<Head(found)>>

is_valid(slot) ==
  LET avail == first_availability(slot.teacher_id, slot.day_of_week)
  IN /\ avail # <<>>
     /\ avail[1].is_available
     /\ avail[1].start_time <= slot.start_time
     /\ avail[1].end_time >= slot.end_time

RECURSIVE scan_availability(_, _)
scan_availability(timeslots, entries) ==
  IF timeslots = <<>> THEN entries
  ELSE LET slot == Head(timeslots)
       IN IF slot.teacher_id = 0 \/ is_valid(slot)
            THEN scan_availability(Tail(timeslots), entries)
            ELSE scan_availability(Tail(timeslots),
                   Append(entries,
                          [type |-> "availability_conflict", severity |-> "high",
                           teacher |-> slot.teacher_id, course |-> slot.course_id,
                           time |-> <<slot.start_time, slot.end_time>>]))

detect_availability_conflicts(self_conflicts, table) ==
  scan_availability(query_all(table), self_conflicts)

\* the sum of end_time - start_time over the rows, in minutes
RECURSIVE total_minutes(_)
total_minutes(slots) ==
  IF slots = <<>> THEN 0
  ELSE (Head(slots).end_time - Head(slots).start_time) + total_minutes(Tail(slots))

\* the bounds themselves count as outside
outside_load_exclusive(minutes) ==
  minutes <= MinWeeklyHours * 60 \/ minutes >= MaxWeeklyHours * 60

\* "total_hours < 18 or total_hours > 24", on the minutes
outside_load(minutes) == minutes < MinWeeklyHours * 60 \/ minutes > MaxWeeklyHours * 60

RECURSIVE scan_groups(_, _, _)
scan_groups(groups, table, entries) ==
  IF groups = <<>> THEN entries
  ELSE LET minutes == total_minutes(query_all({ row \in table : row.group_id = Head(groups) }))
       IN IF outside_load(minutes)
            THEN scan_groups(Tail(groups), table,
                   Append(entries, [type |-> "workload_conflict", severity |-> "medium",
                                    group |-> Head(groups), minutes |-> minutes]))
            ELSE scan_groups(Tail(groups), table, entries)

\* Group.query.all()
RECURSIVE groups_all(_)
groups_all(ids) ==
  IF ids = {} THEN <<>>
  ELSE LET g == CHOOSE x \in ids : \A y \in ids : x <= y
       IN <<g>> \o groups_all(ids \ {g})

detect_workload_violations(self_conflicts, table) ==
  scan_groups(groups_all(GroupIds), table, self_conflicts)

students_count(slot) == IF slot.group_id \in GroupIds THEN DefaultStudentCount ELSE 0

RECURSIVE scan_capacity(_, _)
scan_capacity(timeslots, entries) ==
  IF timeslots = <<>> THEN entries
  ELSE LET slot == Head(timeslots)
       IN IF students_count(slot) > rooms[slot.room_id].capacity
            THEN scan_capacity(Tail(timeslots),
                   Append(entries, [type |-> "capacity_conflict", severity |-> "high",
                                    room |-> slot.room_id, required |-> students_count(slot),
                                    capacity |-> rooms[slot.room_id].capacity]))
            ELSE scan_capacity(Tail(timeslots), entries)

detect_capacity_conflicts(self_conflicts, table) ==
  scan_capacity(query_all(table), self_conflicts)

\* the list is handed on as it is
keep_conflicts(self_conflicts) == self_conflicts

\* "return [c for c in self.conflicts if c['type'] == type]", the value of
\* each detect_* method
returned_entries(self_conflicts, type) ==
  LET of_type(entry) == entry.type = type
  IN SelectSeq(self_conflicts, of_type)

\* "self.conflicts = []"
reset_conflicts(self_conflicts) == <<>>

\* len([c for c in self.conflicts if c['severity'] == severity])
count_severity(entries, severity) ==
  Cardinality({ i \in 1..Len(entries) : entries[i].severity = severity })

\* every listed conflict is counted as high
build_report_all_high(entries) ==
  [total_conflicts |-> Len(entries),
   critical |-> count_severity(entries, "critical"),
   high |-> Len(entries),
   medium |-> count_severity(entries, "medium"),
   conflicts |-> entries]

\* the dictionary detect_all_conflicts() returns
build_report(entries) ==
  [total_conflicts |-> Len(entries),
   critical |-> count_severity(entries, "critical"),
   high |-> count_severity(entries, "high"),
   medium |-> count_severity(entries, "medium"),
   conflicts |-> entries]

\* self.conflicts after the six detections of detect_all_conflicts()
all_conflicts(self_conflicts, table) ==
  detect_capacity_conflicts(
    detect_workload_violations(
      detect_availability_conflicts(
        detect_group_conflicts(
          detect_teacher_conflicts(
            detect_room_conflicts(reset_conflicts(self_conflicts), table),
            table),
          table),
        table),
      table),
    table)

\* ConflictDetector(): a fresh instance
NewDetector ==
  /\ pc = "audited"
  /\ detector_conflicts' = <<>>
  /\ UNCHANGED <<catalog, site, department_id, group_id, generated_slots, conflicts,
                 generated_count, failed_count, todo, pc, result, saved_count, report>>

\* detector.detect_all_conflicts()
DetectAllConflicts ==
  /\ pc \in {"new", "audited"}
  /\ detector_conflicts' = all_conflicts(detector_conflicts, persisted)
  /\ report' = build_report(detector_conflicts')
  /\ pc' = "audited"
  /\ UNCHANGED <<catalog, site, department_id, group_id, generated_slots, conflicts,
                 generated_count, failed_count, todo, result, saved_count>>

Row(i, c, g, r, t, d, s, e) ==
  [id |-> i, course_id |-> c, group_id |-> g, room_id |-> r, teacher_id |-> t,
   day_of_week |-> d, start_time |-> s, end_time |-> e]

\* rows a timeslot table can hold (generated, entered by hand or approved
\* bookings): whole days and shorter sessions of group 1, sessions without a
\* group, a session whose end is its start, sessions of groups 3 and 2
DetectorRows ==
  { Row(1, 1, 1, 2, 1, 0, 480, 1020),
    Row(2, 1, 1, 2, 1, 1, 480, 1020),
    Row(3, 2, 1, 1, 2, 2, 480, 840),
    Row(4, 2, 1, 3, 2, 0, 540, 600),
    Row(5, 3, 0, 2, 2, 0, 600, 720),
    Row(6, 3, 0, 3, 1, 0, 660, 780),
    Row(7, 2, 1, 2, 1, 0, 540, 540),
    Row(8, 3, 3, 2, 2, 1, 600, 720),
    Row(9, 2, 2, 3, 2, 2, 900, 1020) }

DetectorTables ==
  { table \in SUBSET DetectorRows : Cardinality(table) <= MaxRows /\ unique_constraints(table) }

\* no row; teacher 1 available all of day 0; the same behind a row declared
\* unavailable; teacher 2 available on the morning of day 0
DetectorAvailability ==
  { {},
    { Window(1, 1, 0, 480, 1020, TRUE) },
    { Window(1, 1, 0, 720, 840, FALSE), Window(2, 1, 0, 480, 1020, TRUE) },
    { Window(1, 2, 0, 480, 720, TRUE), Window(2, 1, 1, 480, 1020, TRUE) } }

\* the detector on a table of any shape
InitDetector ==
  /\ courses = [c \in CourseIds |-> Course(1, 0, c = 2, <<1, 2>>)]
  /\ availability \in DetectorAvailability
  /\ persisted \in DetectorTables
  /\ Idle

NextDetector ==
  \/ NewDetector
  \/ DetectAllConflicts

DetectorSpec == InitDetector /\ [][NextDetector]_vars

Next ==
  \/ \E scope \in Scopes : Generate(scope[1], scope[2])
  \/ PlaceSession
  \/ Return
  \/ SaveTimetable
  \/ NewDetector
  \/ DetectAllConflicts

Spec == Init /\ [][Next]_vars

\* the booking routes over a table of at most one session
InitBooking ==
  /\ courses = [c \in CourseIds |-> Course(1, 0, c = 2, <<1, 2>>)]
  /\ availability = {}
  /\ persisted \in { p \in SUBSET PersistedCandidates : Cardinality(p) <= 1 }
  /\ Idle

NextBooking ==
  \/ \E form \in BookingForms : SubmitBooking(form)
  \/ \E booking_id \in 1..MaxBookings : ApproveBooking(booking_id)

BookingSpec == InitBooking /\ [][NextBooking]_vars

\* requests that follow or cross one another over one catalogue: the course of
\* department 2 has teachers, the courses of department 1 have none
InitRequests ==
  /\ courses = [c \in CourseIds |-> IF c = 3 THEN Course(1, 480, FALSE, <<2, 1>>)
                                               ELSE Course(1, 360, TRUE, <<>>)]
  /\ availability = {}
  /\ persisted = {}
  /\ Idle

\* one request after the other
NextRepeated ==
  \/ \E scope \in Scopes : Generate(scope[1], scope[2])
  \/ PlaceSession
  \/ Return
  \/ SaveTimetable
  \/ NewRequest

RepeatedSpec == InitRequests /\ [][NextRepeated]_vars

\* two requests at a time
NextConcurrent ==
  \/ \E scope \in Scopes : Generate(scope[1], scope[2])
  \/ PlaceSession
  \/ Return
  \/ SaveTimetable
  \/ ConcurrentRequest
  \/ SaveOther

ConcurrentSpec == InitRequests /\ [][NextConcurrent]_vars

\* runs of generate() over course rows that may hold NULL
NextNullable ==
  \/ \E scope \in Scopes : Generate(scope[1], scope[2])
  \/ PlaceSession
  \/ RangeRaises
  \/ Return

NullableSpec == InitNullable /\ [][NextNullable]_vars

----------------------------------------------------------------------------
(* Notions the properties are stated with *)

\* some minute lies in both half-open windows [s1, e1) and [s2, e2)
WindowsIntersect(s1, e1, s2, e2) == s1 < e1 /\ s2 < e2 /\ s1 < e2 /\ s2 < e1

\* every minute of [s, e) lies in [ws, we)
WindowInside(s, e, ws, we) == s < e => (ws <= s /\ e <= we)

SameDayOverlap(a, b) ==
  /\ a.day_of_week = b.day_of_week
  /\ WindowsIntersect(a.start_time, a.end_time, b.start_time, b.end_time)

Created == 1..Len(generated_slots)

\* the groups the scope of the request names
ScopeGroups ==
  { g \in GroupIds : IF group_id # 0 THEN g = group_id ELSE group_department[g] = department_id }

Finished == pc = "done" /\ result.error = ""

\* the rows the table held when generate() ran: save_timetable() gives the
\* rows it writes the ids that follow
Existing ==
  IF pc = "saved" /\ saved_count > 0
    THEN { p \in persisted : p.id < next_id(persisted) - Len(generated_slots) }
    ELSE persisted

\* <<group, position>> of every course of every group of the scope
ScopeProgram ==
  UNION { { <<g, k>> : k \in 1..Len(group_courses[g]) } : g \in ScopeGroups }

ProgramCourse(x) == group_courses[x[1]][x[2]]

RECURSIVE SumSessions(_)
SumSessions(S) ==
  IF S = {} THEN 0
  ELSE LET x == CHOOSE y \in S : TRUE
       IN courses[ProgramCourse(x)].weekly_sessions + SumSessions(S \ {x})

\* the number of session instances the scope requires
RequiredInstances == SumSessions(ScopeProgram)

\* the failure entries of a course of a group with a reason
Failures(g, c, reason) ==
  { i \in 1..Len(conflicts) : conflicts[i] = [course |-> c, group |-> g, reason |-> reason] }

\* no grid start lets the course end by 17:00
NeverFits(course) == \A st \in slot_starts : st + duration_of(course) > DayEnd

\* the placement step of a session instance is about to run
Placing == pc = "running" /\ todo # <<>>

----------------------------------------------------------------------------
(* C1: no assignment created by the run overlaps, in the same room on the
   same day, another created assignment or a persisted one. *)
NoRoomDoubleBooking ==
  \A i \in Created :
    /\ \A j \in Created \ {i} :
         generated_slots[i].room_id = generated_slots[j].room_id
           => ~ SameDayOverlap(generated_slots[i], generated_slots[j])
    /\ \A p \in Existing :
         generated_slots[i].room_id = p.room_id => ~ SameDayOverlap(generated_slots[i], p)

\* two groups were placed in the same room on the same day, one session
\* starting when the other ends, beside a persisted row of that room
RoomSharedWitness ==
  /\ Finished
  /\ \E i, j \in Created :
       /\ generated_slots[i].group_id # generated_slots[j].group_id
       /\ generated_slots[i].room_id = generated_slots[j].room_id
       /\ generated_slots[i].day_of_week = generated_slots[j].day_of_week
       /\ generated_slots[i].end_time = generated_slots[j].start_time
       /\ \E p \in Existing : p.room_id = generated_slots[i].room_id

(* C2: no assignment created by the run overlaps, for the same teacher on the
   same day, another created assignment or a persisted one. *)
NoTeacherDoubleBooking ==
  \A i \in Created :
    /\ \A j \in Created \ {i} :
         generated_slots[i].teacher_id = generated_slots[j].teacher_id
           => ~ SameDayOverlap(generated_slots[i], generated_slots[j])
    /\ \A p \in Existing :
         generated_slots[i].teacher_id = p.teacher_id => ~ SameDayOverlap(generated_slots[i], p)

\* one teacher was given two sessions in different rooms on one day
TeacherSharedWitness ==
  /\ Finished
  /\ \E i, j \in Created :
       /\ generated_slots[i].teacher_id = generated_slots[j].teacher_id
       /\ generated_slots[i].room_id # generated_slots[j].room_id
       /\ generated_slots[i].day_of_week = generated_slots[j].day_of_week
       /\ generated_slots[i].start_time < generated_slots[i].end_time
       /\ generated_slots[j].start_time < generated_slots[j].end_time

(* C3: no assignment created by the run overlaps, for the same group on the
   same day, an assignment created earlier in the run or a persisted
   assignment of that group. *)
NoGroupDoubleBooking ==
  \A i \in Created :
    /\ \A j \in 1..(i - 1) :
         generated_slots[i].group_id = generated_slots[j].group_id
           => ~ SameDayOverlap(generated_slots[i], generated_slots[j])
    /\ \A p \in Existing :
         generated_slots[i].group_id = p.group_id => ~ SameDayOverlap(generated_slots[i], p)

\* a group got two sessions, one of them on the day of its persisted session
\* and starting when that one ends
GroupSharedWitness ==
  /\ Finished
  /\ \E i, j \in Created :
       /\ i < j
       /\ generated_slots[i].group_id = generated_slots[j].group_id
       /\ \E p \in Existing :
            /\ p.group_id = generated_slots[i].group_id
            /\ p.day_of_week = generated_slots[i].day_of_week
            /\ p.end_time = generated_slots[i].start_time

(* C4: an assignment of a course that requires a lab is in a Lab room, and an
   assignment of a course that does not is in a room that is no Lab; the
   capacity of the room plays no part. *)
LabPartition ==
  \A i \in Created :
    (rooms[generated_slots[i].room_id].room_type = "Lab")
      <=> courses[generated_slots[i].course_id].requires_lab

\* a lab course sits in a Lab smaller than its group, a classroom course in a
\* room that is no Lab
LabPartitionWitness ==
  /\ Finished
  /\ \E i, j \in Created :
       /\ courses[generated_slots[i].course_id].requires_lab
       /\ rooms[generated_slots[i].room_id].capacity < group_capacity[generated_slots[i].group_id]
       /\ ~ courses[generated_slots[j].course_id].requires_lab
       /\ rooms[generated_slots[j].room_id].room_type = "Amphitheater"

(* C5: the teacher of every created assignment is one of the course's
   qualified teachers, and has no availability row at all or has, for the
   day, a row declared available whose window contains the assignment's. *)
TeacherQualifiedAndAvailable ==
  \A i \in Created :
    LET slot == generated_slots[i]
    IN /\ \E k \in 1..Len(courses[slot.course_id].teachers) :
            courses[slot.course_id].teachers[k] = slot.teacher_id
       /\ \/ ~ \E a \in availability : a.teacher_id = slot.teacher_id
          \/ \E a \in availability :
               /\ a.teacher_id = slot.teacher_id
               /\ a.day_of_week = slot.day_of_week
               /\ a.is_available
               /\ WindowInside(slot.start_time, slot.end_time, a.start_time, a.end_time)

\* a teacher with declared windows teaches inside one of them, and a teacher
\* with none teaches too
TeacherAvailableWitness ==
  /\ Finished
  /\ \E i, j \in Created :
       /\ \E a \in availability : a.teacher_id = generated_slots[i].teacher_id
       /\ generated_slots[i].start_time < generated_slots[i].end_time
       /\ ~ \E a \in availability : a.teacher_id = generated_slots[j].teacher_id

(* C6: a course that cannot end by 17:00 from any grid start gets no
   assignment and one failure for each of its session instances, and no
   created assignment ends past 17:00 or ends at or before its start. *)
OverlongRejected ==
  /\ \A i \in Created :
       /\ generated_slots[i].start_time < generated_slots[i].end_time
       /\ generated_slots[i].end_time <= DayEnd
       /\ ~ NeverFits(courses[generated_slots[i].course_id])
  /\ Finished =>
       \A x \in ScopeProgram :
         NeverFits(courses[ProgramCourse(x)]) =>
           Cardinality(Failures(x[1], ProgramCourse(x), ReasonNoSlot)
                         \cup Failures(x[1], ProgramCourse(x), ReasonNoTeacher))
             = courses[ProgramCourse(x)].weekly_sessions

\* a combination the search may take, by the arithmetic of the clock: a day, a
\* grid start ending by 17:00, a lab-compatible room and a qualified teacher,
\* free of overlaps with the working set and the persisted rows and inside
\* the teacher's availability
Feasible(g, course) ==
  \E day \in days, st \in slot_starts, room \in RoomIds, k \in 1..Len(course.teachers) :
    LET en == st + duration_of(course)
        t == course.teachers[k]
        taken == SeqRange(generated_slots) \cup persisted
    IN /\ en <= DayEnd
       /\ (rooms[room].room_type = "Lab") <=> course.requires_lab
       /\ \A s \in taken :
            (s.day_of_week = day /\ WindowsIntersect(st, en, s.start_time, s.end_time))
              => (s.group_id # g /\ s.room_id # room /\ s.teacher_id # t)
       /\ \/ ~ \E a \in availability : a.teacher_id = t
          \/ \E a \in availability :
               /\ a.teacher_id = t
               /\ a.day_of_week = day
               /\ a.is_available
               /\ a.start_time <= st
               /\ en <= a.end_time

(* C7: a session instance of a course with a qualified teacher ends as a
   "no feasible slot" failure exactly when no feasible combination exists,
   and is scheduled otherwise. *)
FailsIffInfeasible ==
  [][ (Placing /\ todo' # todo /\ courses[Head(todo).course].teachers # <<>>)
        => LET g == Head(todo).group
               c == Head(todo).course
           IN IF Feasible(g, courses[c])
                THEN /\ Len(generated_slots') = Len(generated_slots) + 1
                     /\ conflicts' = conflicts
                ELSE /\ generated_slots' = generated_slots
                     /\ conflicts' = Append(conflicts,
                            [course |-> c, group |-> g, reason |-> ReasonNoSlot]) ]_vars

(* C8: a course with no qualified teacher gets no assignment and exactly one
   "no teacher assigned" failure for each of its session instances. *)
NoTeacherOneFailureEach ==
  /\ \A i \in Created : courses[generated_slots[i].course_id].teachers # <<>>
  /\ Finished =>
       \A x \in ScopeProgram :
         courses[ProgramCourse(x)].teachers = <<>> =>
           /\ Cardinality(Failures(x[1], ProgramCourse(x), ReasonNoTeacher))
                = courses[ProgramCourse(x)].weekly_sessions
           /\ Failures(x[1], ProgramCourse(x), ReasonNoSlot) = {}

\* a course of two sessions without teachers left two entries, and the other
\* group of the department was scheduled
NoTeacherWitness ==
  /\ Finished
  /\ \E x \in ScopeProgram :
       /\ courses[ProgramCourse(x)].teachers = <<>>
       /\ courses[ProgramCourse(x)].weekly_sessions = 2
       /\ Cardinality(Failures(x[1], ProgramCourse(x), ReasonNoTeacher)) = 2
  /\ generated_count > 0

(* C9: every session instance of the scope yields exactly one outcome, an
   assignment or a failure entry, the run goes on after a failure, and the
   returned counts add up to the number of required session instances. *)
EveryInstanceOneOutcome ==
  /\ generated_count = Len(generated_slots)
  /\ failed_count = Len(conflicts)
  /\ pc = "running" => generated_count + failed_count + Len(todo) = RequiredInstances
  /\ Finished =>
       /\ result.generated = Len(generated_slots)
       /\ result.failed = Len(conflicts)
       /\ result.generated + result.failed = RequiredInstances

\* the first group's session failed and the next group was scheduled after it
ContinuesAfterFailureWitness ==
  /\ Finished
  /\ result.failed > 0
  /\ result.generated > 0
  /\ \E i \in 1..Len(conflicts), j \in Created :
       conflicts[i].group < generated_slots[j].group_id

(* C10: a scope that names no group ends with the "no groups found" error as
   a value, with no assignment and an empty working set. *)
EmptyScopeIsError ==
  (pc \in {"running", "done", "saved"} /\ ScopeGroups = {}) =>
    /\ pc # "running"
    /\ result.error = ErrorNoGroup
    /\ result.generated = 0
    /\ generated_slots = <<>>
    /\ conflicts = <<>>

\* the request for a department without groups has returned
EmptyScopeWitness ==
  /\ pc = "done"
  /\ ScopeGroups = {}
  /\ result.error = ErrorNoGroup

\* the row is the generated slot, with the id the database gave it
RowOf(row, slot) ==
  /\ row.course_id = slot.course_id
  /\ row.group_id = slot.group_id
  /\ row.room_id = slot.room_id
  /\ row.teacher_id = slot.teacher_id
  /\ row.day_of_week = slot.day_of_week
  /\ row.start_time = slot.start_time
  /\ row.end_time = slot.end_time

(* C11: save_timetable() either persists every generated assignment and
   returns their number, or persists none of them and returns 0; either way
   the generated set in memory is left as it was. *)
SaveAllOrNothing ==
  [][ (pc = "done" /\ pc' = "saved") =>
        /\ generated_slots' = generated_slots
        /\ \/ /\ saved_count' = Len(generated_slots)
              /\ persisted \subseteq persisted'
              /\ Cardinality(persisted' \ persisted) = Len(generated_slots)
              /\ \A i \in Created :
                   \E row \in persisted' \ persisted : RowOf(row, generated_slots[i])
           \/ /\ saved_count' = 0
              /\ persisted' = persisted ]_vars

\* two generated assignments collide on a unique constraint of the table and
\* the save has returned 0 beside a table that had a row
SaveRolledBackWitness ==
  /\ pc = "saved"
  /\ saved_count = 0
  /\ Len(generated_slots) = 2
  /\ persisted # {}
  /\ ~ unique_constraints(commit_rows(persisted))

----------------------------------------------------------------------------
(* Notions the properties of the detector are stated with *)

Audited == pc = "audited"

\* the positions of the entries of a type in the returned report
Entries(type) == { i \in 1..Len(report.conflicts) : report.conflicts[i].type = type }

\* an unordered pair of distinct rows of the table
RowPairs == { pair \in SUBSET persisted : Cardinality(pair) = 2 }

RoomPairs ==
  { pair \in RowPairs :
      \A a, b \in pair : a # b => (a.room_id = b.room_id /\ SameDayOverlap(a, b)) }

TeacherPairs ==
  { pair \in RowPairs :
      \A a, b \in pair : a # b => (a.teacher_id = b.teacher_id /\ SameDayOverlap(a, b)) }

GroupPairs ==
  { pair \in RowPairs :
      \A a, b \in pair :
        a # b => (a.group_id # 0 /\ a.group_id = b.group_id /\ SameDayOverlap(a, b)) }

(* C12: the report holds one critical room_conflict entry for each unordered
   pair of distinct rows sharing room and day with overlapping windows, and
   one critical teacher_conflict entry for each such pair sharing teacher and
   day. *)
RoomTeacherPairsCounted ==
  Audited =>
    /\ Cardinality(Entries("room_conflict")) = Cardinality(RoomPairs)
    /\ Cardinality(Entries("teacher_conflict")) = Cardinality(TeacherPairs)
    /\ \A i \in Entries("room_conflict") \cup Entries("teacher_conflict") :
         report.conflicts[i].severity = "critical"

(* C13: the report holds one critical group_conflict entry for each unordered
   pair of distinct rows of the same non-null group on the same day with
   overlapping windows, and none for rows without a group. *)
GroupPairsCounted ==
  Audited =>
    /\ Cardinality(Entries("group_conflict")) = Cardinality(GroupPairs)
    /\ \A i \in Entries("group_conflict") :
         /\ report.conflicts[i].severity = "critical"
         /\ report.conflicts[i].subject # 0

\* the teacher of the row has, for its day, a window declared available that
\* contains the window of the row
Covered(row) ==
  \E a \in availability :
    /\ a.teacher_id = row.teacher_id
    /\ a.day_of_week = row.day_of_week
    /\ a.is_available
    /\ a.start_time <= row.start_time
    /\ row.end_time <= a.end_time

AvailabilityEntry(row) ==
  [type |-> "availability_conflict", severity |-> "high", teacher |-> row.teacher_id,
   course |-> row.course_id, time |-> <<row.start_time, row.end_time>>]

(* C14: the report holds a high availability_conflict entry for every row
   with a teacher, unless the teacher has for the day of the row a window
   declared available that contains the window of the row. *)
UncoveredRowsFlagged ==
  Audited =>
    /\ Cardinality(Entries("availability_conflict"))
         = Cardinality({ row \in persisted : row.teacher_id # 0 /\ ~ Covered(row) })
    /\ \A row \in persisted :
         (row.teacher_id # 0 /\ ~ Covered(row))
           => \E i \in Entries("availability_conflict") :
                report.conflicts[i] = AvailabilityEntry(row)
    /\ \A i \in Entries("availability_conflict") :
         \E row \in persisted :
           ~ Covered(row) /\ report.conflicts[i] = AvailabilityEntry(row)

RECURSIVE SumDurations(_)
SumDurations(rows) ==
  IF rows = {} THEN 0
  ELSE LET row == CHOOSE r \in rows : TRUE
       IN (row.end_time - row.start_time) + SumDurations(rows \ {row})

\* the minutes of the week of a group
WeeklyMinutes(g) == SumDurations({ row \in persisted : row.group_id = g })

WorkloadEntries(g) ==
  { i \in Entries("workload_conflict") : report.conflicts[i].group = g }

(* C15: the report holds exactly one medium workload_conflict entry for each
   group whose summed duration is below 18 hours or above 24 hours, and none
   for a group whose total is from 18 to 24 hours, bounds included. *)
WorkloadOutsideFlagged ==
  Audited =>
    /\ \A g \in GroupIds :
         IF WeeklyMinutes(g) < 18 * 60 \/ WeeklyMinutes(g) > 24 * 60
           THEN Cardinality(WorkloadEntries(g)) = 1
           ELSE WorkloadEntries(g) = {}
    /\ \A i \in Entries("workload_conflict") :
         /\ report.conflicts[i].severity = "medium"
         /\ report.conflicts[i].group \in GroupIds

\* one group totals exactly 24 hours and is not listed, another is listed
WorkloadWitness ==
  /\ Audited
  /\ \E g, h \in GroupIds :
       /\ WeeklyMinutes(g) = 24 * 60
       /\ WorkloadEntries(g) = {}
       /\ WorkloadEntries(h) # {}

\* the student count the catalog provides for the group of the row
Headcount(row) == IF row.group_id \in GroupIds THEN group_capacity[row.group_id] ELSE 0

Crowded(row) ==
  row.group_id \in GroupIds /\ Headcount(row) > rooms[row.room_id].capacity

(* C16: the report holds one high capacity_conflict entry for each row with a
   group whose headcount exceeds the capacity of the room, and none for the
   other rows. *)
CrowdedRowsFlagged ==
  Audited =>
    /\ Cardinality(Entries("capacity_conflict"))
         = Cardinality({ row \in persisted : Crowded(row) })
    /\ \A row \in persisted :
         Crowded(row) <=>
           \E i \in Entries("capacity_conflict") :
             /\ report.conflicts[i].room = row.room_id
             /\ report.conflicts[i].required = Headcount(row)
    /\ \A i \in Entries("capacity_conflict") : report.conflicts[i].severity = "high"

(* C17: detect_all_conflicts() run again on an unchanged table and catalog,
   on the same detector or on a fresh one, returns the same report. *)
DetectionRepeatable ==
  [][ (Audited /\ persisted' = persisted /\ availability' = availability)
        => report' = report ]_vars

\* a report with pairwise conflicts was returned and a fresh detector made
RepeatWitness ==
  /\ Audited
  /\ report.critical > 1
  /\ report.high > 0
  /\ detector_conflicts = <<>>

(* C18: on the windows of two rows of the same day, the overlap test of the
   generator and the filter of the detector agree with
   max(s1, s2) < min(e1, e2), both ways round, and say no for windows that
   only touch. *)
OverlapTestsAgree ==
  \A a, b \in persisted :
    a.day_of_week = b.day_of_week =>
      LET limit == (IF a.start_time >= b.start_time THEN a.start_time ELSE b.start_time)
                     < (IF a.end_time <= b.end_time THEN a.end_time ELSE b.end_time)
      IN /\ is_overlap(a.start_time, a.end_time, b.start_time, b.end_time) = limit
         /\ is_overlap(b.start_time, b.end_time, a.start_time, a.end_time) = limit
         /\ crosses(b, a) = limit
         /\ crosses(a, b) = limit
         /\ (a.end_time = b.start_time /\ a.start_time < a.end_time) => ~ limit

(* C19: generate() and detect_all_conflicts() leave the rows of the table as
   they are, and save_timetable() only adds rows, one for each generated
   assignment. *)
PersistedImmutable ==
  [][ /\ persisted \subseteq persisted'
      /\ persisted' # persisted =>
           /\ pc = "done" /\ pc' = "saved"
           /\ \A row \in persisted' \ persisted :
                \E i \in Created : RowOf(row, generated_slots[i]) ]_vars

\* the save has written two rows beside a row the table held before
SavedBesideExistingWitness ==
  /\ pc = "saved"
  /\ saved_count = 2
  /\ Existing # {}
  /\ Cardinality(persisted) = Cardinality(Existing) + 2

(* C20: in a returned report total_conflicts is the length of the list, each
   of critical, high and medium is the number of listed conflicts of that
   severity, and the three add up to the total. *)
ReportCountsAddUp ==
  Audited =>
    /\ report.total_conflicts = Len(report.conflicts)
    /\ \A sev \in {"critical", "high", "medium"} :
         report[sev] = Cardinality({ i \in 1..Len(report.conflicts) :
                                      report.conflicts[i].severity = sev })
    /\ report.total_conflicts = report.critical + report.high + report.medium

\* a report with conflicts of the three severities
MixedReportWitness ==
  /\ Audited
  /\ report.critical > 0
  /\ report.high > 0
  /\ report.medium > 0
  /\ report.high # report.total_conflicts

----------------------------------------------------------------------------
(* The working set of one run *)

----------------------------------------------------------------------------
(* Courses with unset columns *)

\* the outcomes, assignments and failure entries, of a course of a group
Outcomes(g, c) ==
  Cardinality({ i \in Created : generated_slots[i].group_id = g /\ generated_slots[i].course_id = c })
  + Cardinality({ i \in 1..Len(conflicts) : conflicts[i].group = g /\ conflicts[i].course = c })

\* C22: a course whose weekly_sessions is unset does not make the run fail and
\* is processed as exactly one session instance, and a session of a course
\* whose duration is unset lasts 60 minutes
UnsetColumnsFallBack ==
  /\ pc # "raised"
  /\ Finished =>
       \A x \in ScopeProgram :
         courses[ProgramCourse(x)].weekly_sessions = None => Outcomes(x[1], ProgramCourse(x)) = 1
  /\ \A i \in Created :
       courses[generated_slots[i].course_id].duration_minutes = 0
         => generated_slots[i].end_time = generated_slots[i].start_time + DefaultDuration

----------------------------------------------------------------------------
(* Requests that follow one another *)

\* the persisted assignments of a course of a group
PersistedSessions(g, c) == { p \in persisted : p.group_id = g /\ p.course_id = c }

\* C23: however many times a scope is generated and saved, the table never
\* holds more assignments of a course of a group than the course's
\* weekly_sessions
WeeklySessionsNeverExceeded ==
  \A g \in GroupIds :
    \A c \in SeqRange(group_courses[g]) :
      Cardinality(PersistedSessions(g, c)) <= courses[c].weekly_sessions

----------------------------------------------------------------------------
(* Declared windows: the generator beside the detector *)

\* the teacher has declared at least one window
HasWindows(t) == \E a \in availability : a.teacher_id = t

\* C24: an assignment the generator accepted for a teacher with declared
\* windows passes the detector's availability test
AcceptedIsNotFlagged ==
  \A i \in Created :
    HasWindows(generated_slots[i].teacher_id) => is_valid(generated_slots[i])

\* C25: no created assignment overlaps a window its teacher declared
\* unavailable on that day
UnavailableWindowsRespected ==
  \A i \in Created :
    ~ \E a \in availability :
        /\ a.teacher_id = generated_slots[i].teacher_id
        /\ a.day_of_week = generated_slots[i].day_of_week
        /\ ~ a.is_available
        /\ WindowsIntersect(generated_slots[i].start_time, generated_slots[i].end_time,
                            a.start_time, a.end_time)

----------------------------------------------------------------------------
(* The scope of a request *)

\* C26: every created assignment is for a group of the requested department,
\* also when the request names one group
OnlyRequestedDepartment ==
  \A i \in Created : group_department[generated_slots[i].group_id] = department_id

----------------------------------------------------------------------------
(* The detections called one by one *)

ConflictTypes ==
  { "room_conflict", "teacher_conflict", "group_conflict", "availability_conflict",
    "workload_conflict", "capacity_conflict" }

\* self.conflicts after the detect_* method of a type has run on a detector
\* holding self_conflicts
Detection(type, self_conflicts) ==
  CASE type = "room_conflict" -> detect_room_conflicts(self_conflicts, persisted)
    [] type = "teacher_conflict" -> detect_teacher_conflicts(self_conflicts, persisted)
    [] type = "group_conflict" -> detect_group_conflicts(self_conflicts, persisted)
    [] type = "availability_conflict" -> detect_availability_conflicts(self_conflicts, persisted)
    [] type = "workload_conflict" -> detect_workload_violations(self_conflicts, persisted)
    [] OTHER -> detect_capacity_conflicts(self_conflicts, persisted)

\* C27: a detect_* method called a second time on the same detector over the
\* same table returns the list its first call returned
EachDetectionRepeatable ==
  \A type \in ConflictTypes :
    returned_entries(Detection(type, Detection(type, <<>>)), type)
      = returned_entries(Detection(type, <<>>), type)

----------------------------------------------------------------------------
(* What the route tells the admin *)

\* C28: the route flashes success with a count only when that many sessions
\* were persisted by save_timetable()
SuccessOnlyWhenPersisted ==
  (pc = "saved" /\ flash_category(result) = "success")
    => /\ saved_count = result.generated
       /\ \A row \in pending_rows(Existing) : row \in persisted

----------------------------------------------------------------------------
(* Requests served at the same time *)

\* C29: after two requests that generated over the same table have both
\* saved, no two persisted assignments of the same day with overlapping
\* windows share a room, a teacher or a group
ConcurrentSavesNoDoubleBooking ==
  (pc = "saved" /\ other_slots = <<>>) =>
    \A a, b \in persisted :
      (a.id # b.id /\ SameDayOverlap(a, b))
        => /\ a.room_id # b.room_id
           /\ a.teacher_id # b.teacher_id
           /\ a.group_id # b.group_id

----------------------------------------------------------------------------
(* Approved bookings *)

\* the sessions a step adds to the table
AddedSessions == { row \in persisted' : row \notin persisted }

\* C30: an approval adds at most one session, none for a request that is
\* approved already, and the session it adds overlaps no other session of
\* the same room on the same day
ApprovalAddsOneFreeSession ==
  [][ /\ Cardinality(AddedSessions) <= 1
      /\ \A row \in AddedSessions :
           /\ \A booking \in bookings :
                booking.status = "approved" => row # new_slot(booking, persisted)
           /\ \A other \in persisted :
                other.room_id = row.room_id => ~ SameDayOverlap(row, other) ]_vars

====
